---- MODULE Spec2Model ----
(***************************************************************************)
(* Model of the song list page (frontend/src/App.tsx).                     *)
(*                                                                         *)
(* The component keeps four state slots (songs, error, keyword, sortKey).  *)
(* fetchSongs builds a query string from the keyword and the sort key of   *)
(* the render it belongs to and issues a GET; the promise chain of every   *)
(* request settles later, in any order, and writes songs and error.        *)
(*                                                                         *)
(* Text is a sequence of units: a unit is one reserved character (" ",     *)
(* "&", "=", "+", "%") or a run of characters the form-urlencoded          *)
(* serializer leaves unchanged (letters, digits, "_").                     *)
(***************************************************************************)
EXTENDS Naturals, Sequences, FiniteSets, TLC

VARIABLES
    songs,        \* useState<Song[]>([])
    error,        \* useState<string>("")
    keyword,      \* useState<string>(""): the content of the search box
    sortKey,      \* useState<string>("id")
    mounted,      \* the component has been displayed (its mount effect ran)
    inflight,     \* requests issued whose promise chain has not settled
    nIssued,      \* history: number of requests issued
    nSortChanges, \* history: number of changes of the sort selection
    nSearches,    \* history: number of invocations of the search action
    lastArrived,  \* history: the request whose response was handled last
    lastSuccess   \* history: the successful response applied last

vars == <<songs, error, keyword, sortKey, mounted, inflight,
          nIssued, nSortChanges, nSearches, lastArrived, lastSuccess>>

-----------------------------------------------------------------------------
(* Bounds and inputs *)

\* requests issued in one behaviour
MaxRequests == 3

\* the fixed text setError receives in the catch handler (the source has a
\* Japanese sentence; the model uses an ASCII stand-in of the same role)
ErrorMessage == "fetch_failed"

\* <option value=...> of the sort select
SortOptions == {"id", "release_date", "title"}

\* texts the user can have in the search box
KeywordInputs == { <<>>, <<"a", " ", "b">>, <<"x", "&", "sort_by", "=", "id">> }

NullDate == "null"

Song1 == [id |-> 1, title |-> "A", release_date |-> "2020-01-01"]
Song2 == [id |-> 2, title |-> "B", release_date |-> NullDate]

\* JSON arrays the backend can answer with
Bodies == { <<>>, <<Song1>>, <<Song2, Song1>> }

-----------------------------------------------------------------------------
(* URLSearchParams *)

\* a query string assembled by plain concatenation, without encoding
EncodeUnitRaw(u) == u

\* application/x-www-form-urlencoded serialization of one unit
EncodeUnit(u) ==
    CASE u = " " -> "+"
      [] u = "&" -> "%26"
      [] u = "=" -> "%3D"
      [] u = "+" -> "%2B"
      [] u = "%" -> "%25"
      [] OTHER   -> u

EncodeText(s) == [i \in 1..Len(s) |-> EncodeUnit(s[i])]

RECURSIVE ParamsToString(_)
\* params.toString(): name=value pairs joined by "&"
ParamsToString(params) ==
    IF params = <<>> THEN <<>>
    ELSE LET p    == Head(params)
             pair == EncodeText(p.name) \o <<"=">> \o EncodeText(p.value)
         IN  IF Tail(params) = <<>> THEN pair
             ELSE pair \o <<"&">> \o ParamsToString(Tail(params))

\* fetchSongs up to the fetch call: the query string built from the keyword
\* and the sort key of the render the function belongs to
BuildQuery(kw, sk) ==
    LET p1 == IF kw # <<>> THEN << [name |-> <<"title_search">>, value |-> kw] >>
              ELSE <<>>
        p2 == IF sk # "" THEN << [name |-> <<"sort_by">>, value |-> <<sk>>] >>
              ELSE <<>>
    IN  ParamsToString(p1 \o p2)

-----------------------------------------------------------------------------
(* What a request carries: the query string as the receiver parses it *)

DecodeUnit(u) ==
    CASE u = "+"   -> " "
      [] u = "%26" -> "&"
      [] u = "%3D" -> "="
      [] u = "%2B" -> "+"
      [] u = "%25" -> "%"
      [] OTHER     -> u

DecodeText(s) == [i \in 1..Len(s) |-> DecodeUnit(s[i])]

RECURSIVE SplitOn(_, _)
\* the pieces of s between occurrences of the unit sep
SplitOn(s, sep) ==
    IF \A i \in 1..Len(s) : s[i] # sep THEN << s >>
    ELSE LET k == CHOOSE i \in 1..Len(s) :
                      s[i] = sep /\ \A j \in 1..(i-1) : s[j] # sep
         IN  << SubSeq(s, 1, k-1) >> \o SplitOn(SubSeq(s, k+1, Len(s)), sep)

ParsePair(piece) ==
    IF \E i \in 1..Len(piece) : piece[i] = "="
    THEN LET k == CHOOSE i \in 1..Len(piece) :
                      piece[i] = "=" /\ \A j \in 1..(i-1) : piece[j] # "="
         IN  [name  |-> DecodeText(SubSeq(piece, 1, k-1)),
              value |-> DecodeText(SubSeq(piece, k+1, Len(piece)))]
    ELSE [name |-> DecodeText(piece), value |-> <<>>]

\* the name/value pairs of a query string, in order
ParseQuery(q) ==
    LET pieces == SelectSeq(SplitOn(q, "&"), LAMBDA p : p # <<>>)
    IN  [i \in 1..Len(pieces) |-> ParsePair(pieces[i])]

\* the values a query string carries for a parameter name
ValuesOf(q, name) ==
    LET ps == SelectSeq(ParseQuery(q), LAMBDA p : p.name = <<name>>)
    IN  [i \in 1..Len(ps) |-> ps[i].value]

-----------------------------------------------------------------------------
(* Responses *)

\* what the network gives back for one request: the fetch promise rejects,
\* or it resolves with a status (ok or not) and a body that parses as JSON
\* to data, or does not parse
Responses ==
    { [rejected |-> TRUE, ok |-> FALSE, parsable |-> FALSE, data |-> <<>>] }
    \cup { [rejected |-> FALSE, ok |-> o, parsable |-> TRUE, data |-> d] :
             o \in BOOLEAN, d \in Bodies }
    \cup { [rejected |-> FALSE, ok |-> o, parsable |-> FALSE, data |-> <<>>] :
             o \in BOOLEAN }

\* the failure modes of a request: a rejected network call, a non-success
\* status, or a body response.json() cannot parse
IsFailure(resp) == resp.rejected \/ ~resp.ok \/ ~resp.parsable

SuccessResponses == { resp \in Responses : ~IsFailure(resp) }
FailureResponses == { resp \in Responses : IsFailure(resp) }

\* a first .then without the response.ok test
FulfilledNoStatusCheck(resp) ==
    /\ ~resp.rejected
    /\ resp.parsable

\* the first .then: throws on a non-ok status, else response.json();
\* a rejected fetch skips it.  TRUE when the chain reaches the second .then
Fulfilled(resp) ==
    /\ ~resp.rejected
    /\ resp.ok
    /\ resp.parsable

\* a second .then that appends the records to the list
ThenSongsAppend(resp, old) == old \o resp.data

\* a second .then without setError("")
ThenErrorKeep(resp, old) == old

\* the second .then: setSongs(data); setError("")
ThenSongs(resp, old) == resp.data
ThenError(resp, old) == ""

\* a catch handler that also empties the list
CatchSongsClear(resp, old) == <<>>

\* the .catch: setError(fixed text); songs is not written
CatchSongs(resp, old) == old
CatchError(resp, old) == ErrorMessage

-----------------------------------------------------------------------------
(* Rendering *)

DateFallback == "date_undecided"

\* <h2> ... ({songs.length}) ... </h2>
DisplayedCount == Len(songs)

\* songs.map(song => <li key={song.id}> ... </li>)
RenderedEntries ==
    [i \in 1..Len(songs) |->
        [key   |-> songs[i].id,
         title |-> songs[i].title,
         date  |-> IF songs[i].release_date \in {NullDate, ""}
                   THEN DateFallback ELSE songs[i].release_date]]

\* {error && <p>{error}</p>}
ErrorShown == error # ""

-----------------------------------------------------------------------------
(* Operations *)

NoRequest == [id |-> 0, query |-> <<>>]

Init ==
    /\ songs = <<>>
    /\ error = ""
    /\ keyword = <<>>
    /\ sortKey = "id"
    /\ mounted = FALSE
    /\ inflight = {}
    /\ nIssued = 0
    /\ nSortChanges = 0
    /\ nSearches = 0
    /\ lastArrived = [id |-> 0, outcome |-> "none"]
    /\ lastSuccess = [req |-> NoRequest, data |-> <<>>]

\* fetchSongs called from the render whose keyword is kw and sort key is sk
fetchSongs(kw, sk) ==
    /\ nIssued < MaxRequests
    /\ nIssued' = nIssued + 1
    /\ inflight' = inflight \cup { [id |-> nIssued + 1, query |-> BuildQuery(kw, sk)] }

\* useEffect(..., [sortKey]) on the first render
Mount ==
    /\ ~mounted
    /\ mounted' = TRUE
    /\ fetchSongs(keyword, sortKey)
    /\ UNCHANGED <<songs, error, keyword, sortKey, nSortChanges, nSearches,
                   lastArrived, lastSuccess>>

\* the dependency comparison of useEffect(..., [sortKey])
DepsChanged(old, new) == old # new

\* a search box that refetches on every edit
SetKeywordFetch(v) ==
    /\ mounted
    /\ keyword' = v
    /\ IF v # keyword
       THEN fetchSongs(v, sortKey)
       ELSE UNCHANGED <<inflight, nIssued>>
    /\ UNCHANGED <<songs, error, sortKey, mounted,
                   nSortChanges, nSearches, lastArrived, lastSuccess>>

\* <input onChange>: setKeyword(e.target.value)
SetKeyword(v) ==
    /\ mounted
    /\ keyword' = v
    /\ UNCHANGED <<songs, error, sortKey, mounted, inflight,
                   nIssued, nSortChanges, nSearches, lastArrived, lastSuccess>>

\* <button onClick={fetchSongs}>
Search ==
    /\ mounted
    /\ fetchSongs(keyword, sortKey)
    /\ nSearches' = nSearches + 1
    /\ UNCHANGED <<songs, error, keyword, sortKey, mounted, nSortChanges,
                   lastArrived, lastSuccess>>

\* a select onChange that calls fetchSongs of the render it was created in,
\* which still holds the previous sort key
SetSortKeyStale(v) ==
    /\ mounted
    /\ sortKey' = v
    /\ nSortChanges' = nSortChanges + (IF v # sortKey THEN 1 ELSE 0)
    /\ IF DepsChanged(sortKey, v)
       THEN fetchSongs(keyword, sortKey)
       ELSE UNCHANGED <<inflight, nIssued>>
    /\ UNCHANGED <<songs, error, keyword, mounted, nSearches,
                   lastArrived, lastSuccess>>

\* a sort change that refetches without the content of the search box
SetSortKeyNoKeyword(v) ==
    /\ mounted
    /\ sortKey' = v
    /\ nSortChanges' = nSortChanges + (IF v # sortKey THEN 1 ELSE 0)
    /\ IF DepsChanged(sortKey, v)
       THEN fetchSongs(<<>>, v)
       ELSE UNCHANGED <<inflight, nIssued>>
    /\ UNCHANGED <<songs, error, keyword, mounted, nSearches,
                   lastArrived, lastSuccess>>

\* <select onChange>: setSortKey(e.target.value), the re-render, and the
\* effect of that render when the dependency changed
SetSortKey(v) ==
    /\ mounted
    /\ sortKey' = v
    /\ nSortChanges' = nSortChanges + (IF v # sortKey THEN 1 ELSE 0)
    /\ IF DepsChanged(sortKey, v)
       THEN fetchSongs(keyword, v)
       ELSE UNCHANGED <<inflight, nIssued>>
    /\ UNCHANGED <<songs, error, keyword, mounted, nSearches,
                   lastArrived, lastSuccess>>

\* the bookkeeping of a settled request: which request arrived last and how,
\* and which successful response arrived last
Arrive(r, resp) ==
    /\ lastArrived' = [id |-> r.id,
                       outcome |-> IF IsFailure(resp) THEN "fail" ELSE "ok"]
    /\ lastSuccess' = IF IsFailure(resp) THEN lastSuccess
                      ELSE [req |-> r, data |-> resp.data]

\* a chain that drops the response of a request older than one already handled
ReceiveSequenced(r, resp) ==
    /\ r \in inflight
    /\ inflight' = inflight \ {r}
    /\ Arrive(r, resp)
    /\ IF r.id < lastArrived.id
       THEN UNCHANGED <<songs, error>>
       ELSE IF Fulfilled(resp)
            THEN /\ songs' = ThenSongs(resp, songs)
                 /\ error' = ThenError(resp, error)
            ELSE /\ songs' = CatchSongs(resp, songs)
                 /\ error' = CatchError(resp, error)
    /\ UNCHANGED <<keyword, sortKey, mounted, nIssued, nSortChanges, nSearches>>

\* a chain whose catch handler issues the request again
ReceiveRetry(r, resp) ==
    /\ r \in inflight
    /\ Arrive(r, resp)
    /\ IF Fulfilled(resp)
       THEN /\ songs' = ThenSongs(resp, songs)
            /\ error' = ThenError(resp, error)
            /\ inflight' = inflight \ {r}
            /\ UNCHANGED nIssued
       ELSE /\ songs' = CatchSongs(resp, songs)
            /\ error' = CatchError(resp, error)
            /\ IF nIssued < MaxRequests
               THEN /\ nIssued' = nIssued + 1
                    /\ inflight' = (inflight \ {r})
                                     \cup { [id |-> nIssued + 1, query |-> r.query] }
               ELSE /\ inflight' = inflight \ {r}
                    /\ UNCHANGED nIssued
    /\ UNCHANGED <<keyword, sortKey, mounted, nSortChanges, nSearches>>

\* the promise chain of request r settles on the response resp
Receive(r, resp) ==
    /\ r \in inflight
    /\ inflight' = inflight \ {r}
    /\ Arrive(r, resp)
    /\ IF Fulfilled(resp)
       THEN /\ songs' = ThenSongs(resp, songs)
            /\ error' = ThenError(resp, error)
       ELSE /\ songs' = CatchSongs(resp, songs)
            /\ error' = CatchError(resp, error)
    /\ UNCHANGED <<keyword, sortKey, mounted, nIssued, nSortChanges, nSearches>>

Next ==
    \/ Mount
    \/ \E v \in KeywordInputs : SetKeyword(v)
    \/ Search
    \/ \E v \in SortOptions : SetSortKey(v)
    \/ \E r \in inflight, resp \in Responses : Receive(r, resp)

Spec == Init /\ [][Next]_vars

-----------------------------------------------------------------------------
(* Properties *)

\* the requests a step adds to the network
NewRequests == inflight' \ inflight

\* the title_search a request built from the search text kw has to carry
ExpectedTitleSearch(kw) == IF kw # <<>> THEN << kw >> ELSE <<>>

\* the number of responses handled so far
nArrived == nIssued - Cardinality(inflight)

\* C1: handling a failed response (rejected call, non-success status or
\* unparsable body) leaves the displayed list as it was and sets the error
\* message to the one fixed text, whatever the failure mode.
C1_FailureKeepsList ==
    [][\A r \in inflight, resp \in FailureResponses :
          Receive(r, resp) =>
              /\ songs' = songs
              /\ RenderedEntries' = RenderedEntries
              /\ error' = ErrorMessage]_vars

\* a failure was handled last while a non-empty list is displayed
C1_Witness ==
    /\ lastArrived.outcome = "fail"
    /\ songs = <<Song2, Song1>>
    /\ error = ErrorMessage

\* C2: handling a successful response replaces the displayed list with the
\* records of that response, keeping nothing of the previous list, and empties
\* the error message, whatever both were before.
C2_SuccessReplacesList ==
    [][\A r \in inflight, resp \in SuccessResponses :
          Receive(r, resp) =>
              /\ songs' = resp.data
              /\ error' = ""]_vars

\* a success replaced a list: the one-record list is displayed after at least
\* three responses, the last of them a success
C2_Witness ==
    /\ lastArrived.outcome = "ok"
    /\ nArrived >= 3
    /\ songs = <<Song1>>
    /\ error = ""

\* C3: initial display issues exactly one request, carrying sort_by=id; every
\* change of the sort selection issues exactly one request, carrying the newly
\* selected sort_by; every request carries exactly one sort_by, which is one of
\* the three options.
C3_SortRequests ==
    /\ [](\A r \in inflight :
             /\ Len(ValuesOf(r.query, "sort_by")) = 1
             /\ \E o \in SortOptions : ValuesOf(r.query, "sort_by") = << <<o>> >>)
    /\ [][(~mounted /\ mounted') =>
             /\ nIssued = 0 /\ nIssued' = 1
             /\ Cardinality(NewRequests) = 1
             /\ \A r \in NewRequests :
                    ValuesOf(r.query, "sort_by") = << <<"id">> >>]_vars
    /\ [][(sortKey' # sortKey) =>
             /\ nIssued' = nIssued + 1
             /\ Cardinality(NewRequests) = 1
             /\ \A r \in NewRequests :
                    ValuesOf(r.query, "sort_by") = << <<sortKey'>> >>]_vars

\* the sort selection was changed twice and the request of the second change
\* is in flight with the key selected then
C3_Witness ==
    /\ nSortChanges = 2
    /\ nSearches = 0
    /\ sortKey = "title"
    /\ \E r \in inflight :
          r.id = 3 /\ ValuesOf(r.query, "sort_by") = << <<"title">> >>

\* C4: every invocation of the search action issues exactly one request, which
\* carries title_search equal to the content of the search box when that is
\* non-empty and no title_search otherwise, and the selected sort_by.
C4_SearchRequest ==
    [][(nSearches' # nSearches) =>
          /\ nIssued' = nIssued + 1
          /\ Cardinality(NewRequests) = 1
          /\ \A r \in NewRequests :
                /\ ValuesOf(r.query, "title_search") = ExpectedTitleSearch(keyword)
                /\ ValuesOf(r.query, "sort_by") = << <<sortKey>> >>]_vars

\* a search with a text of reserved characters is in flight, and so is a
\* search with an empty box
C4_Witness ==
    /\ nSearches = 2
    /\ nSortChanges = 0
    /\ \E r \in inflight :
          ValuesOf(r.query, "title_search") = << <<"x", "&", "sort_by", "=", "id">> >>
    /\ \E r \in inflight : r.id > 1 /\ ValuesOf(r.query, "title_search") = <<>>

\* C5: responses are applied in arrival order: the successful response of a
\* request sent before the one whose response arrived last is applied like
\* any other, so the response that arrives last wins.
C5_ArrivalOrderWins ==
    [][\A r \in inflight, resp \in SuccessResponses :
          (Receive(r, resp) /\ r.id < lastArrived.id) =>
              /\ songs' = resp.data
              /\ lastSuccess'.req = r]_vars

\* every request has completed and the list displayed is the answer to a
\* request sent before the last one, sorted by a key no longer selected
C5_Witness ==
    /\ inflight = {}
    /\ nIssued >= 2
    /\ lastSuccess.req.id \in 1..(nIssued - 1)
    /\ lastArrived = [id |-> lastSuccess.req.id, outcome |-> "ok"]
    /\ songs = lastSuccess.data
    /\ songs # <<>>
    /\ nSearches = 0
    /\ ValuesOf(lastSuccess.req.query, "sort_by") # << <<sortKey>> >>

\* C6: handling a response never issues a request, and the number of requests
\* issued is one for the initial display plus one per change of the sort
\* selection plus one per invocation of the search action.
C6_NoRetry ==
    /\ [](nIssued = (IF mounted THEN 1 ELSE 0) + nSortChanges + nSearches)
    /\ [][(lastArrived' # lastArrived) =>
             /\ nIssued' = nIssued
             /\ NewRequests = {}]_vars

\* a failure was handled, nothing is in flight and the counts add up
C6_Witness ==
    /\ lastArrived.outcome = "fail"
    /\ inflight = {}
    /\ nSortChanges = 1
    /\ nSearches = 1
    /\ nIssued = 3

\* C7: the displayed count equals the number of rendered entries and the
\* number of records of the successful response applied last (0 before any).
C7_CountMatches ==
    /\ DisplayedCount = Len(RenderedEntries)
    /\ DisplayedCount = Len(lastSuccess.data)
    /\ (lastSuccess.req = NoRequest => DisplayedCount = 0)

\* a failure arrived after a success of two records: the count is still two
C7_Witness ==
    /\ lastArrived.outcome = "fail"
    /\ lastSuccess.req.id > 0
    /\ lastArrived.id # lastSuccess.req.id
    /\ DisplayedCount = 2

\* C8: editing the search box changes the search text only: no request is
\* issued and the list, the error message and the sort selection stay; a
\* request is only ever issued by the initial display, a search action or a
\* change of the sort selection.
C8_EditOnlySetsKeyword ==
    /\ [][(keyword' # keyword) =>
             /\ NewRequests = {}
             /\ UNCHANGED <<songs, error, sortKey, inflight, nIssued>>]_vars
    /\ [][(NewRequests # {}) =>
             \/ (~mounted /\ mounted')
             \/ nSearches' # nSearches
             \/ sortKey' # sortKey]_vars

\* text was typed and no request carries it
C8_Witness ==
    /\ keyword = <<"a", " ", "b">>
    /\ nIssued = 1
    /\ \A r \in inflight : ValuesOf(r.query, "title_search") = <<>>
    /\ inflight # {}

\* C9: the error message is non-empty exactly when a response has arrived and
\* the response that arrived last was a failure.
C9_ErrorIffLastFailed ==
    ErrorShown <=> (nArrived > 0 /\ lastArrived.outcome = "fail")

\* the failure of an older request arrived after the success of a newer one:
\* the newer list is displayed together with the error message
C9_Witness ==
    /\ lastArrived.outcome = "fail"
    /\ lastSuccess.req.id > lastArrived.id
    /\ songs = lastSuccess.data
    /\ songs # <<>>
    /\ error = ErrorMessage

\* C10: the request of a sort change carries title_search equal to the text in
\* the search box at that moment, and none when the box is empty, whether or
\* not that text was ever submitted with the search action.
C10_SortChangeCarriesKeyword ==
    [][(sortKey' # sortKey) =>
          \A r \in NewRequests :
              ValuesOf(r.query, "title_search") = ExpectedTitleSearch(keyword)]_vars

\* the list displayed answers a request filtered by a text while the search
\* action was never invoked
C10_Witness ==
    /\ nSearches = 0
    /\ lastSuccess.req.id > 1
    /\ ValuesOf(lastSuccess.req.query, "title_search") = << <<"a", " ", "b">> >>
    /\ songs = lastSuccess.data
    /\ songs # <<>>

-----------------------------------------------------------------------------
TypeOK ==
    /\ songs \in Bodies
    /\ error \in {"", ErrorMessage}
    /\ keyword \in KeywordInputs
    /\ sortKey \in SortOptions
    /\ mounted \in BOOLEAN
    /\ nIssued \in 0..MaxRequests
    /\ Cardinality(inflight) <= nIssued

====
